---- MODULE Spec2Model ----
(***************************************************************************)
(* Model of the XML-to-table converter: the in-process job orchestrator of *)
(* app.py (_run_conversion, start_conversion, get_status,                  *)
(* download_result), the Celery orchestrator of tasks.py (convert_task)    *)
(* the streaming writers both of them use, the document functions of      *)
(* core.py and the JobStore of job_store.py.                               *)
(*                                                                         *)
(* Modelling conventions                                                   *)
(*  - a Python dict is a function whose DOMAIN is the set of present keys; *)
(*    dict.update(kw) is  kw @@ d ;  d.get(k, dflt) is Get(d, k, dflt).    *)
(*  - a flat record (the dict iter_xml_rows yields) is a sequence of       *)
(*    <<key, value>> pairs with distinct keys: Python dicts keep insertion *)
(*    order and list(r.keys()) exposes it.                                 *)
(*  - None is the string Null, which is no cell text.                      *)
(*  - an uploaded file temp_uploads/<fid>.xml is named by what is at that  *)
(*    path: "missing", "malformed", or the name of a well-formed document. *)
(***************************************************************************)
EXTENDS Integers, Sequences, FiniteSets, TLC

VARIABLES
    jobs,        \* app.py: the registry  jobs = {}  (job id -> dict)
    wpc,         \* app.py: position of the worker thread in _run_conversion
    wargs,       \* app.py: the arguments the thread was started with
    widx,        \* app.py: loop variable idx of the multi-file loop
    outputs,     \* app.py: files under outputs/ of the job (suffix -> content)
    tmpfiles,    \* app.py: NamedTemporaryFile(delete=False) files still on disk
    processed,   \* app.py: indices of the files handed to a stream_* writer
    published,   \* history: every progress view the registry has held
    convResp,    \* last response of POST /convert
    ppc,         \* get_status: position of one polling request
    pacc,        \* get_status: the fields that request has read so far
    lastPoll,    \* the response of the last completed poll
    dlResp,      \* last response of GET /download/{job_id}
    dpc,         \* download_result: position of one download request
    dacc,        \* download_result: the locals that request has bound so far
    tstate,      \* tasks.py: the task's state in the Celery result backend
    tpc,         \* tasks.py: position of the Celery worker in convert_task
    targs,       \* tasks.py: the arguments of the task
    tidx,        \* tasks.py: loop variable idx
    toutputs,    \* tasks.py: files under outputs/ of the task
    ttmp,        \* tasks.py: temp files still on disk
    tprocessed,  \* tasks.py: indices of the files whose conversion was started
    win,         \* writer harness: the arguments of one writer call
    wout,        \* writer harness: what the call wrote
    redis,       \* job_store.py: the Redis keyspace (key -> JSON text)
    sret,        \* job_store.py: the last JobStore call and its outcome
    swritten,    \* history: for each field the value last passed to the store
    scalls       \* number of JobStore calls made

appVars  == <<jobs, wpc, wargs, widx, outputs, tmpfiles, processed, published,
              convResp, ppc, pacc, lastPoll, dlResp, dpc, dacc>>
taskVars == <<tstate, tpc, targs, tidx, toutputs, ttmp, tprocessed>>
wrVars   == <<win, wout>>
storeVars == <<redis, sret, swritten, scalls>>
vars     == <<jobs, wpc, wargs, widx, outputs, tmpfiles, processed, published,
              convResp, ppc, pacc, lastPoll, dlResp, dpc, dacc,
              tstate, tpc, targs, tidx, toutputs, ttmp, tprocessed, win, wout,
              redis, sret, swritten, scalls>>

----------------------------------------------------------------------------
(* Bounds *)

\* longest file list of a conversion request
MaxFiles == 3
\* longest streamed row sequence of the writer harness
MaxRows == 2
\* most elements of an enumerated document
MaxNodes == 5
\* most JobStore calls of one behaviour
MaxCalls == 3
\* longest byte buffer stored as zip_bytes
MaxBytes == 3

----------------------------------------------------------------------------
(* Python values *)

Null == "<None>"

EmptyDict == [k \in {} |-> Null]

\* dict.get(k, dflt)
Get(d, k, dflt) == IF k \in DOMAIN d THEN d[k] ELSE dflt

\* the key/value pairs of a flat record: r.get(k) and list(r.keys())
HasKey(r, k) == \E i \in 1..Len(r) : r[i][1] = k
RGet(r, k) == IF HasKey(r, k)
              THEN r[CHOOSE i \in 1..Len(r) : r[i][1] = k][2]
              ELSE Null
RKeys(r) == [i \in 1..Len(r) |-> r[i][1]]

\* a column projection: Python None, or a list of keys
NoneCols == [isNone |-> TRUE, list |-> <<>>]
ListCols(l) == [isNone |-> FALSE, list |-> l]
\* Python truthiness of `columns`: None and [] are falsy
Truthy(cols) == ~cols.isNone /\ cols.list # <<>>
\* `columns if columns else None`
OrNone(cols) == IF Truthy(cols) THEN cols ELSE NoneCols

----------------------------------------------------------------------------
(* Row filtering and projection shared by all writers *)

\* any((r.get(k) is not None and r.get(k) != "") for k in header)
AnySelected(r, header) ==
    \E i \in 1..Len(header) : RGet(r, header[i]) # Null /\ RGet(r, header[i]) # ""

\* [r.get(k) for k in header]
RowVals(r, header) == [i \in 1..Len(header) |-> RGet(r, header[i])]

\* csv.DictWriter.writerow({k: r.get(k) for k in header}): None is written
\* as the empty field
CsvCell(v) == IF v = Null THEN "" ELSE v
CsvRow(r, header) == [i \in 1..Len(header) |-> CsvCell(RGet(r, header[i]))]

RECURSIVE CsvRows(_, _)
CsvRows(rows, header) ==
    IF rows = <<>> THEN <<>>
    ELSE (IF AnySelected(Head(rows), header)
          THEN <<CsvRow(Head(rows), header)>> ELSE <<>>)
         \o CsvRows(Tail(rows), header)

RECURSIVE SheetRows(_, _)
SheetRows(rows, header) ==
    IF rows = <<>> THEN <<>>
    ELSE (IF AnySelected(Head(rows), header)
          THEN <<RowVals(Head(rows), header)>> ELSE <<>>)
         \o SheetRows(Tail(rows), header)

----------------------------------------------------------------------------
(* app.py: the writers nested in _run_conversion.  `rows` is the sequence   *)
(* iter_xml_rows(xml_path) yields; every call of iter_xml_rows re-opens the *)
(* file and yields the whole sequence again.                                *)

\* stream_csv_to_path: the lines written to out_path
stream_csv_to_path(rows, header_cols) ==
    IF ~header_cols.isNone
    THEN IF header_cols.list = <<>> THEN <<>>
         ELSE <<header_cols.list>> \o CsvRows(rows, header_cols.list)
    ELSE IF rows = <<>> \/ Head(rows) = <<>> THEN <<>>
         ELSE LET header == RKeys(Head(rows)) IN
              <<header>>
              \o (IF AnySelected(Head(rows), header)
                  THEN <<CsvRow(Head(rows), header)>> ELSE <<>>)
              \o CsvRows(rows, header)

\* stream_xlsx_to_path with the header taken from the last record instead of
\* the first one
stream_xlsx_LastRowHeader(rows, header_cols) ==
    LET header == IF Truthy(header_cols) THEN header_cols.list
                  ELSE IF rows # <<>> THEN RKeys(rows[Len(rows)]) ELSE <<>>
    IN  IF header = <<>> THEN <<>>
        ELSE <<header>>
             \o (IF rows # <<>> /\ AnySelected(Head(rows), header)
                 THEN <<RowVals(Head(rows), header)>> ELSE <<>>)
             \o SheetRows(rows, header)

\* stream_xlsx_to_path: the rows appended to sheet "Rows"
stream_xlsx_to_path(rows, header_cols) ==
    LET header == IF Truthy(header_cols) THEN header_cols.list
                  ELSE IF rows # <<>> THEN RKeys(Head(rows)) ELSE <<>>
    IN  IF header = <<>> THEN <<>>
        ELSE <<header>>
             \o (IF rows # <<>> /\ AnySelected(Head(rows), header)
                 THEN <<RowVals(Head(rows), header)>> ELSE <<>>)
             \o SheetRows(rows, header)

\* stream_parquet_to_path: schema and rows of the table written; no row is
\* filtered.  The file is created only when a batch is written.
stream_parquet_to_path(rows, header_cols) ==
    LET header == IF Truthy(header_cols) THEN header_cols.list
                  ELSE IF rows # <<>> THEN RKeys(Head(rows)) ELSE <<>>
    IN  <<header>> \o [i \in 1..Len(rows) |-> RowVals(rows[i], header)]

----------------------------------------------------------------------------
(* core.py: elements.  A parsed document is the sequence of its elements   *)
(* in document order; element 1 is the root.  An element has the index of  *)
(* its parent (0 for the root), its tag in Clark notation "{ns}local" as   *)
(* the pair <<ns, local>> (ns = "" for no namespace), its attributes in    *)
(* order as <<tag, value>> pairs, and its text as a sequence of characters. *)

\* localname: tag.split('}', 1)[1] if '}' in tag else tag
localname(tag) == tag[2]

\* list(el): the child elements, in document order
Children(t, el) == SelectSeq([j \in 1..Len(t) |-> j], LAMBDA j : t[j].parent = el)

\* elem.clear() of lxml removes the children, the attributes and the text of
\* an element and leaves it in its parent; `cleared` is the set of elements
\* cleared so far
Kids(t, el, cleared) == IF el \in cleared THEN <<>> ELSE Children(t, el)
Attrib(t, el, cleared) == IF el \in cleared THEN <<>> ELSE t[el].attrib
Text(t, el, cleared) == IF el \in cleared THEN <<>> ELSE t[el].text

\* str.strip() and the string of a character sequence
RECURSIVE lstrip(_)
lstrip(s) == IF s # <<>> /\ Head(s) = " " THEN lstrip(Tail(s)) ELSE s
RECURSIVE rstrip(_)
rstrip(s) == IF s # <<>> /\ s[Len(s)] = " " THEN rstrip(SubSeq(s, 1, Len(s) - 1)) ELSE s
strip(s) == rstrip(lstrip(s))
RECURSIVE Join(_)
Join(s) == IF s = <<>> THEN "" ELSE Head(s) \o Join(Tail(s))

\* a dict as the sequence of its <<key, value>> pairs in insertion order:
\* d[k] = v keeps the place of a key already present
DictSet(d, k, v) ==
    IF HasKey(d, k)
    THEN [i \in 1..Len(d) |-> IF d[i][1] = k THEN <<k, v>> ELSE d[i]]
    ELSE Append(d, <<k, v>>)
RECURSIVE DictUpdate(_, _)
DictUpdate(d, e) ==
    IF e = <<>> THEN d ELSE DictUpdate(DictSet(d, Head(e)[1], Head(e)[2]), Tail(e))

\* the values element_to_dict returns: a str or None, a dict, a list
Scalar(v) == [kind |-> "scalar", v |-> v]
Record(items) == [kind |-> "dict", v |-> items]
RepeatedGroup(items) == [kind |-> "list", v |-> items]

\* lines 19-22: data[f"@{localname(k)}"] = v for every attribute
RECURSIVE AttrEntries(_, _)
AttrEntries(attrib, data) ==
    IF attrib = <<>> THEN data
    ELSE AttrEntries(Tail(attrib),
                     DictSet(data, "@" \o localname(Head(attrib)[1]), Scalar(Head(attrib)[2])))

RECURSIVE element_to_dict(_, _, _)
RECURSIVE Buckets(_, _, _, _)

\* lines 26-35: the children grouped by local name, a list from the second on
Buckets(t, kids, cleared, buckets) ==
    IF kids = <<>> THEN buckets
    ELSE LET k == localname(t[Head(kids)].tag)
             v == element_to_dict(t, Head(kids), cleared)
             old == RGet(buckets, k)
         IN  Buckets(t, Tail(kids), cleared,
                     IF HasKey(buckets, k)
                     THEN DictSet(buckets, k,
                                  RepeatedGroup(Append(IF old.kind = "list" THEN old.v
                                                       ELSE <<old>>, v)))
                     ELSE Append(buckets, <<k, v>>))

\* a leaf element with attributes kept as a dict of its attributes
element_to_dict_LeafKeepsAttrs(t, el, cleared) ==
    LET data == AttrEntries(Attrib(t, el, cleared), <<>>)
        kids == Kids(t, el, cleared)
        txt == Join(strip(Text(t, el, cleared)))
    IN  IF kids # <<>>
        THEN Record(DictUpdate(data, Buckets(t, kids, cleared, <<>>)))
        ELSE IF data # <<>> THEN Record(data)
        ELSE Scalar(IF txt # "" THEN txt ELSE Null)

\* lines 17-40
element_to_dict(t, el, cleared) ==
    LET data == AttrEntries(Attrib(t, el, cleared), <<>>)
        kids == Kids(t, el, cleared)
        txt == Join(strip(Text(t, el, cleared)))
    IN  IF kids # <<>>
        THEN Record(DictUpdate(data, Buckets(t, kids, cleared, <<>>)))
        ELSE Scalar(IF txt # "" THEN txt ELSE Null)

----------------------------------------------------------------------------
(* core.py: flatten_dict_all *)

RECURSIVE flatten_dict_all(_, _)
RECURSIVE FlattenItems(_, _, _)
RECURSIVE FlattenList(_, _, _, _)

\* lines 51-52 and 56-57: flat.update(flatten_dict_all(item, f"{nk}[{i}]"))
FlattenList(items, i, nk, flat) ==
    IF items = <<>> THEN flat
    ELSE FlattenList(Tail(items), i + 1, nk,
                     DictUpdate(flat, flatten_dict_all(Head(items),
                                                       nk \o "[" \o ToString(i) \o "]")))

\* lines 46-54: the entries of a dict, in order
FlattenItems(items, parent_key, flat) ==
    IF items = <<>> THEN flat
    ELSE LET k == Head(items)[1]
             v == Head(items)[2]
             nk == IF parent_key # "" THEN parent_key \o "." \o k ELSE k
         IN  FlattenItems(Tail(items), parent_key,
                          IF v.kind = "dict" THEN DictUpdate(flat, flatten_dict_all(v, nk))
                          ELSE IF v.kind = "list" THEN FlattenList(v.v, 0, nk, flat)
                          ELSE DictSet(flat, nk, v.v))

\* lines 42-61
flatten_dict_all(obj, parent_key) ==
    IF obj.kind = "dict" THEN FlattenItems(obj.v, parent_key, <<>>)
    ELSE IF obj.kind = "list" THEN FlattenList(obj.v, 0, parent_key, <<>>)
    ELSE IF parent_key # "" THEN << <<parent_key, obj.v>> >>
    ELSE <<>>

----------------------------------------------------------------------------
(* core.py: detect_repeating_rows and xml_rows_to_dataframe *)

\* lines 79-81: groups[localname(ch.tag)].append(ch), in first-seen order
RECURSIVE GroupBy(_, _, _)
GroupBy(t, children, groups) ==
    IF children = <<>> THEN groups
    ELSE LET name == localname(t[Head(children)].tag) IN
         GroupBy(t, Tail(children),
                 DictSet(groups, name,
                         Append(IF HasKey(groups, name) THEN RGet(groups, name) ELSE <<>>,
                                Head(children))))

\* the comparison of line 85 without its tie-breaker
Better_CountOnly(c, depth, best) == c >= 2 /\ c > best.count

\* lines 84-85
Better(c, depth, best) ==
    c >= 2 /\ (c > best.count \/ (c = best.count /\ depth > best.depth))

\* lines 82-86
RECURSIVE BestOver(_, _, _)
BestOver(groups, depth, best) ==
    IF groups = <<>> THEN best
    ELSE LET name == Head(groups)[1]
             els == Head(groups)[2]
         IN  BestOver(Tail(groups), depth,
                      IF Better(Len(els), depth, best)
                      THEN [count |-> Len(els), depth |-> depth, name |-> name, elems |-> els]
                      ELSE best)

\* lines 75-88: stack.pop() takes the element pushed last
RECURSIVE DetectLoop(_, _, _)
DetectLoop(t, stack, best) ==
    IF stack = <<>> THEN best
    ELSE LET parent == stack[Len(stack)][1]
             depth == stack[Len(stack)][2]
             rest == SubSeq(stack, 1, Len(stack) - 1)
             children == Children(t, parent)
         IN  IF children # <<>>
             THEN DetectLoop(t, rest \o [j \in 1..Len(children) |-> <<children[j], depth + 1>>],
                             BestOver(GroupBy(t, children, <<>>), depth, best))
             ELSE DetectLoop(t, rest, best)

\* lines 65-92; best["elems"] is None is the empty sequence here
detect_repeating_rows(t) ==
    LET best == DetectLoop(t, << <<1, 0>> >>,
                           [count |-> 0, depth |-> -1, name |-> Null, elems |-> <<>>])
    IN  IF best.elems # <<>> THEN best.elems
        ELSE IF Children(t, 1) # <<>> THEN Children(t, 1) ELSE <<1>>

\* the cell pandas puts where a record has no value for a column
NaN == "<NaN>"

\* the columns of pd.DataFrame(rows) for a list of dicts: every key, in the
\* order of its first appearance
RECURSIVE UnionKeys(_, _)
UnionKeys(rows, columns) ==
    IF rows = <<>> THEN columns
    ELSE UnionKeys(Tail(rows),
                   columns \o SelectSeq(RKeys(Head(rows)),
                                        LAMBDA k : \A j \in 1..Len(columns) : columns[j] # k))

\* pd.DataFrame(rows) with the columns taken from the first record only
DataFrame_FirstRowColumns(rows) ==
    LET columns == IF rows = <<>> THEN <<>> ELSE RKeys(Head(rows)) IN
    [columns |-> columns,
     rows |-> [i \in 1..Len(rows) |->
                 [j \in 1..Len(columns) |->
                     IF HasKey(rows[i], columns[j]) THEN RGet(rows[i], columns[j]) ELSE NaN]]]

\* line 102: pd.DataFrame(rows)
DataFrame(rows) ==
    LET columns == UnionKeys(rows, <<>>) IN
    [columns |-> columns,
     rows |-> [i \in 1..Len(rows) |->
                 [j \in 1..Len(columns) |->
                     IF HasKey(rows[i], columns[j]) THEN RGet(rows[i], columns[j]) ELSE NaN]]]

\* lines 94-106
xml_rows_to_dataframe(t) ==
    LET row_elems == detect_repeating_rows(t) IN
    DataFrame([i \in 1..Len(row_elems) |->
                  flatten_dict_all(element_to_dict(t, row_elems[i], {}), "")])

\* lines 124-125 and 177-178: the rows of df.iterrows() as dicts, NaN and None
\* cells as None
DataFrameRecords(df) ==
    [i \in 1..Len(df.rows) |->
        [j \in 1..Len(df.columns) |->
            <<df.columns[j], IF df.rows[i][j] \in {NaN, Null} THEN Null ELSE df.rows[i][j]>>]]

----------------------------------------------------------------------------
(* core.py: iter_xml_rows *)

\* `from lxml import etree` succeeded: the deployment installs lxml
HAS_LXML == TRUE

\* LET.iterparse(xml_path, events=("start", "end")): the events of a document
RECURSIVE ElementEvents(_, _)
RECURSIVE ChildrenEvents(_, _)
ChildrenEvents(t, children) ==
    IF children = <<>> THEN <<>>
    ELSE ElementEvents(t, Head(children)) \o ChildrenEvents(t, Tail(children))
ElementEvents(t, el) ==
    << [event |-> "start", elem |-> el] >>
    \o ChildrenEvents(t, Children(t, el))
    \o << [event |-> "end", elem |-> el] >>
iterparse(t) == ElementEvents(t, 1)

\* the test of line 145 with >= for >: the name counted last wins a tie
Repeats_LastWins(c, best_count) == c >= 2 /\ c >= best_count

\* line 145
Repeats(c, best_count) == c >= 2 /\ c > best_count

\* lines 134-152: the first pass; `stack` is sibling_counts_stack
RECURSIVE FirstPass(_, _, _, _)
FirstPass(t, events, stack, best) ==
    IF events = <<>> THEN best
    ELSE LET elem == Head(events).elem
             n == Len(stack)
             local == localname(t[elem].tag)
             c == (IF HasKey(stack[n - 1], local) THEN RGet(stack[n - 1], local) ELSE 0) + 1
         IN  IF Head(events).event = "start"
             THEN FirstPass(t, Tail(events), Append(stack, <<>>), best)
             ELSE IF n >= 2
             THEN FirstPass(t, Tail(events),
                            SubSeq([stack EXCEPT ![n - 1] = DictSet(@, local, c)], 1, n - 1),
                            IF Repeats(c, best.count)
                            THEN [name |-> local, count |-> c] ELSE best)
             ELSE FirstPass(t, Tail(events), SubSeq(stack, 1, n - 1), best)

\* lines 158-170: the local name of the element of the second start event
first_child_local(t) ==
    LET starts == SelectSeq(iterparse(t), LAMBDA e : e.event = "start") IN
    IF Len(starts) >= 2 THEN localname(t[starts[2].elem].tag) ELSE Null

\* lines 129-170: the tag the second pass streams over
target_local(t) ==
    LET best == FirstPass(t, iterparse(t), <<>>, [name |-> Null, count |-> 0]) IN
    IF best.name # Null THEN best.name ELSE first_child_local(t)

\* lines 185-190
is_match(tag, target) ==
    IF tag[1] # "" THEN tag[2] = target ELSE tag[2] = target

\* lines 183-195: every matching element, at its end event; the elements
\* yielded before it have been cleared
SecondPass(t, target) ==
    LET ends == SelectSeq(iterparse(t),
                          LAMBDA e : e.event = "end" /\ is_match(t[e.elem].tag, target))
    IN  [k \in 1..Len(ends) |->
            flatten_dict_all(element_to_dict(t, ends[k].elem,
                                             {ends[m].elem : m \in 1..(k - 1)}), "")]

\* lines 111-196: the records the generator yields for a well-formed document
iter_xml_rows(t) ==
    IF ~HAS_LXML THEN DataFrameRecords(xml_rows_to_dataframe(t))
    ELSE IF target_local(t) = Null THEN DataFrameRecords(xml_rows_to_dataframe(t))
    ELSE SecondPass(t, target_local(t))

----------------------------------------------------------------------------
(* Uploaded files and documents *)

\* file names a request may carry, with os.path.splitext(basename(.))[0]
Names == <<"a.xml", "b.xml", "c.xml", "d.xml", "e.xml">>
Bases == <<"a", "b", "c", "d", "e">>
BaseOf(fname) == Bases[CHOOSE i \in 1..Len(Names) : Names[i] = fname]

\* an element without attributes and namespace
Elem(parent, name, text) ==
    [parent |-> parent, tag |-> <<"", name>>, attrib |-> <<>>,
     text |-> IF text = "" THEN <<>> ELSE <<text>>]

\* well-formed documents of the uploads:
\*   "rows"  <root><row><a>1</a><b>2</b></row><row><a>3</a><b/></row></root>
\*   "leaf"  <root><a>1</a></root>, whose only row is a leaf element
DocTree(doc) ==
    IF doc = "rows"
    THEN << Elem(0, "root", ""), Elem(1, "row", ""), Elem(2, "a", "1"), Elem(2, "b", "2"),
            Elem(1, "row", ""), Elem(5, "a", "3"), Elem(5, "b", "") >>
    ELSE << Elem(0, "root", ""), Elem(1, "a", "1") >>
\* the records iter_xml_rows yields for them: on a malformed file the first
\* next() raises (pass 1 of the parse), which the callers below model
DocRows(doc) == iter_xml_rows(DocTree(doc))
OkDocs == {"rows", "leaf"}
FileKinds == {"missing", "malformed"} \cup OkDocs

RECURSIVE SeqsUpTo(_, _)
SeqsUpTo(S, n) ==
    IF n = 0 THEN {<<>>}
    ELSE LET shorter == SeqsUpTo(S, n - 1) IN
         shorter \cup {Append(s, x) : s \in {t \in shorter : Len(t) = n - 1}, x \in S}

FileLists == SeqsUpTo(FileKinds, MaxFiles)
Formats == {"xlsx", "csv", "parquet", "json"}
ColumnChoices == {NoneCols, ListCols(<<>>), ListCols(<<"a">>)}

\* the suffix the orchestrators give the artifact: csv, parquet, else xlsx
ExtOf(fmt) == IF fmt = "csv" THEN "csv" ELSE IF fmt = "parquet" THEN "parquet" ELSE "xlsx"

\* int(n / total * 100): Python float division, truncated.  For total < 50 it
\* equals the exact floor computed here (the first difference is 29/50).
IntPercent(n, total) == (n * 100) \div total

----------------------------------------------------------------------------
(* app.py: the job registry *)

JobId == "j1"

\* the update with the result descriptor left out
_update_job_StatusWithoutResult(js, job_id, kwargs) ==
    LET kept == [k \in DOMAIN kwargs \ {"result_path", "result_filename"} |-> kwargs[k]] IN
    (job_id :> (kept @@ (IF job_id \in DOMAIN js THEN js[job_id] ELSE EmptyDict))) @@ js

\* _update_job: under jobs_lock, job = jobs.get(job_id, {}); job.update(kwargs)
_update_job(js, job_id, kwargs) ==
    (job_id :> (kwargs @@ (IF job_id \in DOMAIN js THEN js[job_id] ELSE EmptyDict))) @@ js

StatusOf(js) == IF JobId \in DOMAIN js THEN Get(js[JobId], "status", "PROGRESS") ELSE "NONE"

\* the except clause of _run_conversion: _update_job(status="FAILURE", error=str(e))
FailJob(js, exc, path) ==
    _update_job(js, JobId, [status |-> "FAILURE", error |-> [exc |-> exc, path |-> path]])

Publish(js) == published' = published \cup {js[JobId]}

----------------------------------------------------------------------------
(* app.py: POST /convert *)

BadPayload == [code |-> 400, detail |-> "Invalid payload"]
BadLength == [code |-> 400, detail |-> "file_ids and file_names must be same length"]
BadFormat == [code |-> 400, detail |-> "format must be xlsx, csv, or parquet"]

\* the format check of start_conversion
FormatAccepted(fmt) == fmt \in {"xlsx", "csv", "parquet"}

ConvertFrame == /\ UNCHANGED <<widx, outputs, tmpfiles, processed, ppc, pacc, lastPoll, dlResp,
                             dpc, dacc>>
                /\ UNCHANGED taskVars /\ UNCHANGED wrVars /\ UNCHANGED storeVars

\* The payload is drawn case by case: the checks of lines 442-452 read only
\* the presence of the keys, the two lengths and the format.
ConvertRejected ==
    /\ \/ \* lines 442-448: a key is missing
          convResp' = BadPayload
       \/ \* lines 449-450
          \E nIds \in 0..MaxFiles, nNames \in 0..MaxFiles :
             /\ nIds = 0 \/ nNames = 0 \/ nIds # nNames
             /\ convResp' = BadLength
       \/ \* lines 451-452
          \E fmt \in Formats : ~FormatAccepted(fmt) /\ convResp' = BadFormat
    /\ UNCHANGED <<jobs, wpc, wargs, published>>
    /\ ConvertFrame

\* lines 454-458, for a payload that passed the checks
ConvertAccepted(lists, projections, formats) ==
    /\ JobId \notin DOMAIN jobs          \* uuid4() is a fresh id
    /\ \E files \in lists \ {<<>>}, columns \in projections, fmt \in formats :
          /\ FormatAccepted(fmt)
          /\ jobs' = _update_job(jobs, JobId, [status |-> "QUEUED", progress |-> 0])
          /\ Publish(jobs')
          /\ wargs' = [file_ids |-> files, file_names |-> SubSeq(Names, 1, Len(files)),
                       columns |-> columns, output_format |-> fmt]
          /\ wpc' = "begin"
          /\ convResp' = [code |-> 200, job_id |-> JobId]
    /\ ConvertFrame

start_conversion == ConvertRejected \/ ConvertAccepted(FileLists, ColumnChoices, Formats)

\* the requests the polling specification draws: get_status reads neither the
\* projection nor the format nor the rows of a document
PollLists == SeqsUpTo({"missing", "malformed", "rows"}, MaxFiles)
StartPolled == ConvertAccepted(PollLists, {NoneCols}, {"csv"})

----------------------------------------------------------------------------
(* app.py: _run_conversion, the worker thread *)

Total == Len(wargs.file_ids)
FName(i) == wargs.file_names[i]

\* the dispatch on output_format around the three stream_* calls
AppWrite(fmt, rows, columns) ==
    IF fmt = "csv" THEN stream_csv_to_path(rows, OrNone(columns))
    ELSE IF fmt = "parquet" THEN stream_parquet_to_path(rows, OrNone(columns))
    ELSE stream_xlsx_to_path(rows, OrNone(columns))

\* what is at out_path when the writer raised at its first next(): the csv
\* writer has opened the file, the other two have written nothing yet
PartialSingle(fmt) == IF fmt = "csv" THEN ("csv" :> <<>>) ELSE EmptyDict

WorkerFrame == /\ UNCHANGED <<wargs, convResp, ppc, pacc, lastPoll, dlResp, dpc, dacc>>
               /\ UNCHANGED taskVars /\ UNCHANGED wrVars /\ UNCHANGED storeVars

\* lines 27-29
W_Begin ==
    /\ wpc = "begin"
    /\ jobs' = _update_job(jobs, JobId, [status |-> "PROGRESS", progress |-> 0,
                                         current |-> 0, total |-> Total, file |-> ""])
    /\ Publish(jobs')
    /\ wpc' = IF Total > 1 THEN "open_zip" ELSE "single_check"
    /\ UNCHANGED <<widx, outputs, tmpfiles, processed>>
    /\ WorkerFrame

\* lines 110-113: zipfile.ZipFile(zip_path, "w") creates the archive
W_OpenZip ==
    /\ wpc = "open_zip"
    /\ outputs' = ("zip" :> <<>>) @@ outputs
    /\ widx' = 1
    /\ wpc' = "file_check"
    /\ UNCHANGED <<jobs, tmpfiles, processed, published>>
    /\ WorkerFrame

\* lines 114-118: the existence check and the before-file update
\* (mutant: the before-file update computes the percent from idx, not idx - 1)
BeforePercent_FromIdx(idx, total) == IntPercent(idx, total)

BeforePercent(idx, total) == IntPercent(idx - 1, total)

\* (mutant: a missing file marks the job FAILURE but the loop goes on)
W_FileCheck_NoAbort ==
    /\ wpc = "file_check"
    /\ jobs' = IF wargs.file_ids[widx] = "missing"
               THEN FailJob(jobs, "FileNotFoundError", widx)
               ELSE _update_job(jobs, JobId,
                        [current |-> widx, file |-> FName(widx),
                         progress |-> BeforePercent(widx, Total)])
    /\ wpc' = "convert"
    /\ Publish(jobs')
    /\ UNCHANGED <<widx, outputs, tmpfiles, processed>>
    /\ WorkerFrame

W_FileCheck ==
    /\ wpc = "file_check"
    /\ IF wargs.file_ids[widx] = "missing"
       THEN /\ jobs' = FailJob(jobs, "FileNotFoundError", widx)
            /\ wpc' = "done"
       ELSE /\ jobs' = _update_job(jobs, JobId,
                          [current |-> widx, file |-> FName(widx),
                           progress |-> BeforePercent(widx, Total)])
            /\ wpc' = "convert"
    /\ Publish(jobs')
    /\ UNCHANGED <<widx, outputs, tmpfiles, processed>>
    /\ WorkerFrame

\* (mutant: a file that fails to parse marks the job FAILURE, the loop goes on)
W_Convert_Continue ==
    /\ wpc = "convert"
    /\ processed' = processed \cup {widx}
    /\ tmpfiles' = tmpfiles \cup {widx}
    /\ IF wargs.file_ids[widx] = "malformed"
       THEN jobs' = FailJob(jobs, "XMLSyntaxError", widx) /\ Publish(jobs')
       ELSE UNCHANGED <<jobs, published>>
    /\ wpc' = "after"
    /\ UNCHANGED <<widx, outputs>>
    /\ WorkerFrame

\* lines 119-131: the temp file, the writer, zf.write; a writer that raises
\* leaves the temp file and the archive written so far, and the except clause
\* of line 158 marks the job
W_Convert ==
    /\ wpc = "convert"
    /\ processed' = processed \cup {widx}
    /\ tmpfiles' = tmpfiles \cup {widx}
    /\ IF wargs.file_ids[widx] = "malformed"
       THEN /\ jobs' = FailJob(jobs, "XMLSyntaxError", widx)
            /\ Publish(jobs')
            /\ wpc' = "done"
            /\ UNCHANGED outputs
       ELSE /\ outputs' = [outputs EXCEPT !["zip"] = Append(@,
                  [name |-> <<BaseOf(FName(widx)), ExtOf(wargs.output_format)>>,
                   data |-> AppWrite(wargs.output_format,
                                     iter_xml_rows(DocTree(wargs.file_ids[widx])), wargs.columns)])]
            /\ wpc' = "after"
            /\ UNCHANGED <<jobs, published>>
    /\ UNCHANGED widx
    /\ WorkerFrame

\* lines 132-136: os.remove(tmp.name) and the after-file update
AfterPercent(idx, total) == IntPercent(idx, total)

W_After ==
    /\ wpc = "after"
    /\ tmpfiles' = tmpfiles \ {widx}
    /\ jobs' = _update_job(jobs, JobId,
                   [current |-> widx, file |-> FName(widx),
                    progress |-> AfterPercent(widx, Total)])
    /\ Publish(jobs')
    /\ IF widx < Total
       THEN widx' = widx + 1 /\ wpc' = "file_check"
       ELSE widx' = widx /\ wpc' = "finish"
    /\ UNCHANGED <<outputs, processed>>
    /\ WorkerFrame

\* line 137
W_Finish ==
    /\ wpc = "finish"
    /\ jobs' = _update_job(jobs, JobId, [status |-> "SUCCESS", result_path |-> "zip",
                                         result_filename |-> "converted_files.zip"])
    /\ Publish(jobs')
    /\ wpc' = "done"
    /\ UNCHANGED <<widx, outputs, tmpfiles, processed>>
    /\ WorkerFrame

\* lines 139-144
W_SingleCheck ==
    /\ wpc = "single_check"
    /\ IF wargs.file_ids[1] = "missing"
       THEN /\ jobs' = FailJob(jobs, "FileNotFoundError", 1)
            /\ wpc' = "done"
       ELSE /\ jobs' = _update_job(jobs, JobId,
                          [current |-> 1, total |-> 1, file |-> FName(1), progress |-> 0])
            /\ wpc' = "single_convert"
    /\ Publish(jobs')
    /\ UNCHANGED <<widx, outputs, tmpfiles, processed>>
    /\ WorkerFrame

\* lines 145-156: the writer writes outputs/<job_id>.<ext> directly
W_SingleConvert ==
    /\ wpc = "single_convert"
    /\ processed' = processed \cup {1}
    /\ LET fmt == wargs.output_format
           rows == iter_xml_rows(DocTree(wargs.file_ids[1])) IN
       IF wargs.file_ids[1] = "malformed"
       THEN /\ outputs' = PartialSingle(fmt) @@ outputs
            /\ jobs' = FailJob(jobs, "XMLSyntaxError", 1)
            /\ Publish(jobs')
            /\ wpc' = "done"
       ELSE /\ outputs' = IF fmt = "parquet" /\ rows = <<>> THEN outputs
                          ELSE (ExtOf(fmt) :> AppWrite(fmt, rows, wargs.columns)) @@ outputs
            /\ wpc' = "single_finish"
            /\ UNCHANGED <<jobs, published>>
    /\ UNCHANGED <<widx, tmpfiles>>
    /\ WorkerFrame

\* line 157
W_SingleFinish ==
    /\ wpc = "single_finish"
    /\ jobs' = _update_job(jobs, JobId,
                   [status |-> "SUCCESS", result_path |-> ExtOf(wargs.output_format),
                    result_filename |-> <<BaseOf(FName(1)), ExtOf(wargs.output_format)>>,
                    progress |-> 100])
    /\ Publish(jobs')
    /\ wpc' = "done"
    /\ UNCHANGED <<widx, outputs, tmpfiles, processed>>
    /\ WorkerFrame

Worker == \/ W_Begin \/ W_OpenZip \/ W_FileCheck \/ W_Convert \/ W_After \/ W_Finish
          \/ W_SingleCheck \/ W_SingleConvert \/ W_SingleFinish

----------------------------------------------------------------------------
(* app.py: GET /status/{job_id}.  The handler takes no lock: it fetches the *)
(* job's dict once and then reads status, progress, current, total and file *)
(* one after the other from the dict the worker updates in place.           *)

NoResponse == [code |-> 0]
NotFound == [code |-> 404, detail |-> "Job not found"]

PollFields == <<"progress", "current", "total", "file">>
PollDefault(field) == IF field = "file" THEN "" ELSE 0

\* the response get_status builds from the values `d` it has read
ProgressResponse(d) ==
    [code |-> 200, status |-> "PROGRESS", progress |-> d["progress"],
     current |-> d["current"], total |-> d["total"], file |-> d["file"]]

\* lines 462-469: the lookup, the read of status, the terminal responses
P_ReadStatus ==
    /\ ppc = 0
    /\ IF JobId \notin DOMAIN jobs
       THEN lastPoll' = NotFound /\ UNCHANGED <<ppc, pacc>>
       ELSE LET status == Get(jobs[JobId], "status", "PROGRESS") IN
            IF status = "SUCCESS"
            THEN lastPoll' = [code |-> 200, status |-> "SUCCESS"] /\ UNCHANGED <<ppc, pacc>>
            ELSE IF status = "FAILURE"
            THEN /\ lastPoll' = [code |-> 200, status |-> "FAILURE",
                                 error |-> Get(jobs[JobId], "error", "Unknown error")]
                 /\ UNCHANGED <<ppc, pacc>>
            ELSE ppc' = 1 /\ pacc' = EmptyDict /\ UNCHANGED lastPoll
    /\ UNCHANGED <<jobs, wpc, wargs, widx, outputs, tmpfiles, processed, published,
                   convResp, dlResp, dpc, dacc>>
    /\ UNCHANGED taskVars /\ UNCHANGED wrVars /\ UNCHANGED storeVars

\* lines 470-476: one job.get(field, default) per step
P_ReadField ==
    /\ ppc \in 1..Len(PollFields)
    /\ LET field == PollFields[ppc]
           read == (field :> Get(jobs[JobId], field, PollDefault(field))) @@ pacc IN
       IF ppc < Len(PollFields)
       THEN ppc' = ppc + 1 /\ pacc' = read /\ UNCHANGED lastPoll
       ELSE ppc' = 0 /\ pacc' = EmptyDict /\ lastPoll' = ProgressResponse(read)
    /\ UNCHANGED <<jobs, wpc, wargs, widx, outputs, tmpfiles, processed, published,
                   convResp, dlResp, dpc, dacc>>
    /\ UNCHANGED taskVars /\ UNCHANGED wrVars /\ UNCHANGED storeVars

get_status == P_ReadStatus \/ P_ReadField

----------------------------------------------------------------------------
(* app.py: GET /download/{job_id} *)

\* line 483: only a job whose status is SUCCESS is served
Downloadable(job) == Get(job, "status", Null) = "SUCCESS"

\* lines 480-484: the lookup and the status test.  The handler takes no lock
\* and `job` is the dict the worker updates in place.
D_ReadStatus ==
    /\ dpc = 0
    /\ IF JobId \notin DOMAIN jobs
       THEN dlResp' = NotFound /\ UNCHANGED <<dpc, dacc>>
       ELSE IF ~Downloadable(jobs[JobId])
       THEN dlResp' = [code |-> 400, detail |-> "Job not completed"] /\ UNCHANGED <<dpc, dacc>>
       ELSE dpc' = 1 /\ dacc' = EmptyDict /\ UNCHANGED dlResp
    /\ UNCHANGED <<jobs, wpc, wargs, widx, outputs, tmpfiles, processed, published,
                   convResp, ppc, pacc, lastPoll>>
    /\ UNCHANGED taskVars /\ UNCHANGED wrVars /\ UNCHANGED storeVars

\* lines 485-487: path = job.get("result_path"); not path or not os.path.exists
D_ReadPath ==
    /\ dpc = 1
    /\ LET path == Get(jobs[JobId], "result_path", Null) IN
       IF path = Null \/ path \notin DOMAIN outputs
       THEN /\ dlResp' = [code |-> 404, detail |-> "Result not found"]
            /\ dpc' = 0 /\ dacc' = EmptyDict
       ELSE dpc' = 2 /\ dacc' = ("path" :> path) /\ UNCHANGED dlResp
    /\ UNCHANGED <<jobs, wpc, wargs, widx, outputs, tmpfiles, processed, published,
                   convResp, ppc, pacc, lastPoll>>
    /\ UNCHANGED taskVars /\ UNCHANGED wrVars /\ UNCHANGED storeVars

\* lines 488-499: filename = job.get("result_filename") or basename(path);
\* FileResponse(path) serves the file as it is on disk
D_Respond ==
    /\ dpc = 2
    /\ LET path == dacc["path"] IN
       dlResp' = IF path \notin DOMAIN outputs
                 THEN [code |-> 500, detail |-> "File at path does not exist"]
                 ELSE [code |-> 200, path |-> path, body |-> outputs[path],
                       filename |-> Get(jobs[JobId], "result_filename", path)]
    /\ dpc' = 0 /\ dacc' = EmptyDict
    /\ UNCHANGED <<jobs, wpc, wargs, widx, outputs, tmpfiles, processed, published,
                   convResp, ppc, pacc, lastPoll>>
    /\ UNCHANGED taskVars /\ UNCHANGED wrVars /\ UNCHANGED storeVars

download_result == D_ReadStatus \/ D_ReadPath \/ D_Respond

----------------------------------------------------------------------------
(* tasks.py: the writers inlined in convert_task *)

\* lines 41-55 and 174-191: the csv header; `columns is not None` decides
task_csv_header(rows, columns) ==
    IF ~columns.isNone THEN columns.list
    ELSE IF rows = <<>> \/ Head(rows) = <<>> THEN <<>>
    ELSE RKeys(Head(rows))

\* lines 57-74 and 178-198: the header line, then row_iter() or rows_filtered()
task_csv_lines(rows, columns) ==
    LET header == task_csv_header(rows, columns) IN
    IF header = <<>> THEN <<>>
    ELSE <<header>>
         \o (IF columns.isNone /\ AnySelected(Head(rows), header)
             THEN <<CsvRow(Head(rows), header)>> ELSE <<>>)
         \o CsvRows(rows, header)

\* lines 169-199: the single-file csv artifact; with no header to infer,
\* pd.DataFrame([]).to_csv writes one empty line
task_csv_single(rows, columns) ==
    IF columns.isNone /\ task_csv_header(rows, columns) = <<>> THEN << <<>> >>
    ELSE task_csv_lines(rows, columns)

\* lines 91-95 and 206-210: normalize_row, str(v) of every value but None
normalize_row(r, header) ==
    [i \in 1..Len(header) |->
        IF RGet(r, header[i]) = Null THEN Null ELSE RGet(r, header[i])]

\* lines 86-114 and 202-228
task_parquet(rows, columns) ==
    LET header == IF Truthy(columns) THEN columns.list
                  ELSE IF rows # <<>> THEN RKeys(Head(rows)) ELSE <<>>
    IN  <<header>> \o [i \in 1..Len(rows) |-> normalize_row(rows[i], header)]

\* lines 129-147 and 235-252: `list(columns) if columns is not None else None`
task_xlsx(rows, columns) ==
    LET header == IF ~columns.isNone THEN columns.list
                  ELSE IF rows # <<>> THEN RKeys(Head(rows)) ELSE <<>>
    IN  IF header = <<>> THEN <<>>
        ELSE <<header>>
             \o (IF rows # <<>> /\ AnySelected(Head(rows), header)
                 THEN <<RowVals(Head(rows), header)>> ELSE <<>>)
             \o SheetRows(rows, header)

----------------------------------------------------------------------------
(* tasks.py: convert_task, run by a Celery worker.  The result backend      *)
(* holds the task's state: PENDING, STARTED (task_track_started), PROGRESS  *)
(* with the meta of update_state, SUCCESS with the returned value, FAILURE  *)
(* with the exception raised.                                               *)

TTotal == Len(targs.file_ids)
TName(i) == targs.file_names[i]

TaskFailure(exc, path) == [state |-> "FAILURE", error |-> [exc |-> exc, path |-> path]]

TaskFrame == UNCHANGED appVars /\ UNCHANGED wrVars /\ UNCHANGED storeVars
TaskStep == UNCHANGED targs /\ TaskFrame

\* convert_task.delay(file_ids, file_names, columns, output_format): the task
\* takes whatever arguments the caller sends
T_Submit ==
    /\ tpc = "idle"
    /\ \E files \in FileLists, columns \in ColumnChoices, fmt \in Formats :
          targs' = [file_ids |-> files, file_names |-> SubSeq(Names, 1, Len(files)),
                    columns |-> columns, output_format |-> fmt]
    /\ tstate' = [state |-> "PENDING"]
    /\ tpc' = "begin"
    /\ UNCHANGED <<tidx, toutputs, ttmp, tprocessed>>
    /\ TaskFrame

\* lines 24-30: the worker picks the task up; a list of several files opens
\* the archive
T_Begin ==
    /\ tpc = "begin"
    /\ tstate' = [state |-> "STARTED"]
    /\ IF TTotal > 1
       THEN toutputs' = ("zip" :> <<>>) @@ toutputs /\ tidx' = 1 /\ tpc' = "convert"
       ELSE UNCHANGED <<toutputs, tidx>> /\ tpc' = "single"
    /\ UNCHANGED <<ttmp, tprocessed>>
    /\ TaskStep

TaskNextFile == IF tidx < TTotal THEN tidx' = tidx + 1 /\ tpc' = "convert"
                ELSE tidx' = tidx /\ tpc' = "return_zip"

\* lines 31-154: one file of the archive.  csv is written through an
\* in-memory buffer; parquet and xlsx go through a temp file.
T_Convert ==
    /\ tpc = "convert"
    /\ LET kind == targs.file_ids[tidx]
           fmt == targs.output_format
           columns == targs.columns
           rows == iter_xml_rows(DocTree(kind))
           entry(data) == [name |-> <<BaseOf(TName(tidx)), ExtOf(fmt)>>, data |-> data]
       IN
       IF kind = "missing"
       THEN \* lines 33-34
            /\ tstate' = TaskFailure("FileNotFoundError", tidx)
            /\ tpc' = "done"
            /\ UNCHANGED <<tidx, toutputs, ttmp, tprocessed>>
       ELSE IF fmt = "csv" /\ ~columns.isNone /\ columns.list = <<>>
       THEN \* lines 43-45: `continue`, before the file is opened
            /\ TaskNextFile
            /\ UNCHANGED <<tstate, toutputs, ttmp, tprocessed>>
       ELSE IF kind = "malformed"
       THEN \* the first next() of iter_xml_rows raises
            /\ tstate' = TaskFailure("XMLSyntaxError", tidx)
            /\ tpc' = "done"
            /\ ttmp' = IF fmt = "csv" THEN ttmp ELSE ttmp \cup {tidx}
            /\ tprocessed' = tprocessed \cup {tidx}
            /\ UNCHANGED <<tidx, toutputs>>
       ELSE /\ tprocessed' = tprocessed \cup {tidx}
            /\ IF fmt = "csv"
               THEN \* lines 70-79: the entry is written only if the buffer holds text
                    /\ toutputs' = IF task_csv_lines(rows, columns) = <<>> THEN toutputs
                                   ELSE [toutputs EXCEPT !["zip"] =
                                            Append(@, entry(task_csv_lines(rows, columns)))]
                    /\ UNCHANGED ttmp
               ELSE /\ toutputs' = [toutputs EXCEPT !["zip"] =
                                      Append(@, entry(IF fmt = "parquet"
                                                      THEN task_parquet(rows, columns)
                                                      ELSE task_xlsx(rows, columns)))]
                    /\ ttmp' = ttmp \cup {tidx}
            /\ tpc' = "progress"
            /\ UNCHANGED <<tstate, tidx>>
    /\ TaskStep

\* lines 117-120, 151-154 (os.remove of the temp file) and 156-160
T_Progress ==
    /\ tpc = "progress"
    /\ ttmp' = ttmp \ {tidx}
    /\ tstate' = [state |-> "PROGRESS",
                  meta |-> [current |-> tidx, total |-> TTotal, file |-> TName(tidx),
                            progress |-> IntPercent(tidx, TTotal)]]
    /\ TaskNextFile
    /\ UNCHANGED <<toutputs, tprocessed>>
    /\ TaskStep

\* line 161
T_ReturnZip ==
    /\ tpc = "return_zip"
    /\ tstate' = [state |-> "SUCCESS", result |-> [filename |-> "converted_files.zip"]]
    /\ tpc' = "done"
    /\ UNCHANGED <<tidx, toutputs, ttmp, tprocessed>>
    /\ TaskStep

\* lines 163-255: a list of one file (or of none: file_ids[0] raises)
T_Single ==
    /\ tpc = "single"
    /\ LET fmt == targs.output_format
           columns == targs.columns
       IN
       IF TTotal = 0
       THEN /\ tstate' = TaskFailure("IndexError", 0)
            /\ tpc' = "done"
            /\ UNCHANGED <<toutputs, tprocessed>>
       ELSE IF targs.file_ids[1] = "missing"
       THEN \* line 166: open(xml_path, "rb")
            /\ tstate' = TaskFailure("FileNotFoundError", 1)
            /\ tpc' = "done"
            /\ UNCHANGED <<toutputs, tprocessed>>
       ELSE IF fmt = "csv" /\ ~columns.isNone /\ columns.list = <<>>
       THEN \* lines 176-177: returns from inside `with open(out_path, "w")`
            /\ toutputs' = ("csv" :> <<>>) @@ toutputs
            /\ tpc' = "return"
            /\ UNCHANGED <<tstate, tprocessed>>
       ELSE IF targs.file_ids[1] = "malformed"
       THEN /\ tstate' = TaskFailure("XMLSyntaxError", 1)
            /\ tpc' = "done"
            /\ toutputs' = PartialSingle(fmt) @@ toutputs
            /\ tprocessed' = tprocessed \cup {1}
       ELSE LET rows == iter_xml_rows(DocTree(targs.file_ids[1])) IN
            /\ toutputs' =
                 IF fmt = "csv" THEN ("csv" :> task_csv_single(rows, columns)) @@ toutputs
                 ELSE IF fmt = "parquet"
                 THEN (IF rows = <<>> THEN toutputs
                       ELSE ("parquet" :> task_parquet(rows, columns)) @@ toutputs)
                 ELSE ("xlsx" :> task_xlsx(rows, columns)) @@ toutputs
            /\ tprocessed' = tprocessed \cup {1}
            /\ tpc' = "return"
            /\ UNCHANGED tstate
    /\ UNCHANGED <<tidx, ttmp>>
    /\ TaskStep

\* line 256 (and 177)
T_Return ==
    /\ tpc = "return"
    /\ tstate' = [state |-> "SUCCESS",
                  result |-> [filename |-> <<BaseOf(TName(1)), ExtOf(targs.output_format)>>]]
    /\ tpc' = "done"
    /\ UNCHANGED <<tidx, toutputs, ttmp, tprocessed>>
    /\ TaskStep

convert_task == \/ T_Begin \/ T_Convert \/ T_Progress \/ T_ReturnZip
                \/ T_Single \/ T_Return

----------------------------------------------------------------------------
(* Writer harness: one call of a writer on a streamed row sequence, with    *)
(* the header argument the orchestrator passes it.                          *)

CellKeys == {"a", "b"}
CellValues == {Null, "", "x"}

\* flat records over CellKeys, in either key order
OneKey == {<< <<k, v>> >> : k \in CellKeys, v \in CellValues}
TwoKeys == {<< <<k[1], v1>>, <<k[2], v2>> >> :
               k \in {<<"a", "b">>, <<"b", "a">>}, v1 \in CellValues, v2 \in CellValues}
FlatRecords == {<<>>} \cup OneKey \cup TwoKeys

\* iter_xml_rows yields at least one record for every well-formed document
RowSeqs == SeqsUpTo(FlatRecords, MaxRows) \ {<<>>}

Projections == {NoneCols, ListCols(<<>>), ListCols(<<"a">>), ListCols(<<"b", "a">>),
                ListCols(<<"c">>)}

Writers == {"app_csv", "app_xlsx", "app_parquet",
            "task_csv_zip", "task_csv_single", "task_xlsx", "task_parquet"}

\* what the named writer writes for `columns` as the request carries them
WriterOutput(writer, rows, columns) ==
    CASE writer = "app_csv" -> stream_csv_to_path(rows, OrNone(columns))
      [] writer = "app_xlsx" -> stream_xlsx_to_path(rows, OrNone(columns))
      [] writer = "app_parquet" -> stream_parquet_to_path(rows, OrNone(columns))
      [] writer = "task_csv_zip" -> task_csv_lines(rows, columns)
      [] writer = "task_csv_single" -> task_csv_single(rows, columns)
      [] writer = "task_xlsx" -> task_xlsx(rows, columns)
      [] OTHER -> task_parquet(rows, columns)

\* the sheets of the workbook an xlsx writer saves: wb.create_sheet("Rows") is
\* called once and every ws.append goes to that sheet
WorkbookSheets(writer, rows, columns) ==
    IF writer \in {"app_xlsx", "task_xlsx"}
    THEN << WriterOutput(writer, rows, columns) >>
    ELSE <<>>

\* a projection of 20000 columns "1" .. "20000", on two records that carry
\* the first and the last of them
WideColumns == [i \in 1..20000 |-> ToString(i)]
WideRows == << << <<"1", "x">> >>, << <<"20000", "y">> >> >>
WideCalls == [writer : {"app_xlsx", "task_xlsx"}, rows : {WideRows},
              columns : {ListCols(WideColumns)}]

WriterInit ==
    /\ win \in [writer : Writers, rows : RowSeqs, columns : Projections] \cup WideCalls
    /\ wout = [done |-> FALSE]

RunWriter ==
    /\ ~wout.done
    /\ wout' = [done |-> TRUE,
                lines |-> WriterOutput(win.writer, win.rows, win.columns),
                sheets |-> WorkbookSheets(win.writer, win.rows, win.columns)]
    /\ UNCHANGED win
    /\ UNCHANGED appVars /\ UNCHANGED taskVars /\ UNCHANGED storeVars

----------------------------------------------------------------------------
(* Document harness: the functions of core.py on one parsed document *)

\* the local names of the enumerated documents
LocalNames == {"r", "a", "b"}

\* the ancestors of element i, itself included, for parent indices p
RECURSIVE Ancestors(_, _)
Ancestors(p, i) == IF i = 0 THEN {} ELSE {i} \cup Ancestors(p, p[i])

\* the parent indices of every tree of n elements in document order: an
\* element is a child of the element before it or of one of its ancestors
RECURSIVE ParentSeqs(_)
ParentSeqs(n) ==
    IF n = 1 THEN {<<0>>}
    ELSE UNION {{Append(p, q) : q \in Ancestors(p, n - 1)} : p \in ParentSeqs(n - 1)}

\* every document of n elements named from LocalNames, the text of element i
\* being the numeral of i
PlainTrees(n) ==
    {[i \in 1..n |-> Elem(p[i], tags[i], ToString(i))] :
        p \in ParentSeqs(n), tags \in [1..n -> LocalNames]}

\* attributes: none, one, two of the same local name in different namespaces
AttribChoices == {<<>>, << <<<<"", "id">>, "7">> >>,
                  << <<<<"n", "id">>, "7">>, <<<<"", "id">>, "8">> >>}
TextChoices == {<<>>, <<" ">>, <<" ", "x", " ">>}

\* a row element with attributes and up to two leaf children, with
\* namespaces, attributes, blank and padded text
RichLeaves == [parent : {1}, tag : {<<"", "a">>, <<"n", "a">>, <<"", "b">>},
               attrib : AttribChoices, text : TextChoices]
RichRoots == [parent : {0}, tag : {<<"", "row">>}, attrib : AttribChoices,
              text : {<<>>, <<"x">>}]
RichTrees == {<<r>> : r \in RichRoots}
             \cup {<<r, c>> : r \in RichRoots, c \in RichLeaves}
             \cup {<<r, c, d>> : r \in RichRoots, c \in RichLeaves, d \in RichLeaves}

\* documents written out:
\*   <row><a>1</a><b><c>2</c></b></row>
\*   <row><item><v>x</v></item><item><v>y</v></item><item><v>z</v></item></row>
\*   <root><a/></root>   and   <root/>
\*   <row><b.c>1</b.c><b><c>2</c></b></row>
\*   <root><r><a>1</a></r><r><a>2</a></r><g><r><a>3</a></r></g></root>
\*   <root><a>1</a><a>2</a></root>
ExampleDocs ==
    { << Elem(0, "row", ""), Elem(1, "a", "1"), Elem(1, "b", ""), Elem(3, "c", "2") >>,
      << Elem(0, "row", ""), Elem(1, "item", ""), Elem(2, "v", "x"), Elem(1, "item", ""),
         Elem(4, "v", "y"), Elem(1, "item", ""), Elem(6, "v", "z") >>,
      << Elem(0, "root", ""), Elem(1, "a", "") >>,
      << Elem(0, "root", "") >>,
      << Elem(0, "row", ""), Elem(1, "b.c", "1"), Elem(1, "b", ""), Elem(3, "c", "2") >>,
      << Elem(0, "root", ""), Elem(1, "r", ""), Elem(2, "a", "1"), Elem(1, "r", ""),
         Elem(4, "a", "2"), Elem(1, "g", ""), Elem(6, "r", ""), Elem(7, "a", "3") >>,
      << Elem(0, "root", ""), Elem(1, "a", "1"), Elem(1, "a", "2") >>,
      DocTree("rows") }

\* one document: a plain one of at most MaxNodes elements, a rich one or one
\* of the examples
CoreInit ==
    /\ \/ \E n \in 1..MaxNodes : \E d \in PlainTrees(n) : win = [doc |-> d]
       \/ \E d \in RichTrees \cup ExampleDocs : win = [doc |-> d]
    /\ wout = [done |-> FALSE]

\* every function of core.py applied to the document: element_to_dict and
\* flatten_dict_all to each element, the two row detectors and the two row
\* sources to the whole document
RunCore ==
    /\ ~wout.done
    /\ wout' = [done |-> TRUE,
                normalized |-> [el \in 1..Len(win.doc) |-> element_to_dict(win.doc, el, {})],
                flat |-> [el \in 1..Len(win.doc) |->
                             flatten_dict_all(element_to_dict(win.doc, el, {}), "")],
                row_elems |-> detect_repeating_rows(win.doc),
                table |-> xml_rows_to_dataframe(win.doc),
                target |-> target_local(win.doc),
                streamed |-> iter_xml_rows(win.doc)]
    /\ UNCHANGED win
    /\ UNCHANGED appVars /\ UNCHANGED taskVars /\ UNCHANGED storeVars

----------------------------------------------------------------------------
(* job_store.py: JobStore, the job records kept in Redis as JSON text.      *)
(* A Python value carries its type; a str is its sequence of characters; a  *)
(* dict with str keys is a function, as above.                              *)

PyInt(n) == [int |-> n]
PyStr(chars) == [str |-> chars]
PyBool(b) == [bool |-> b]
PyNone == [NoneType |-> Null]
BytesIO(bytes) == [BytesIO |-> bytes]
\* isinstance(v, t)
IsInstance(v, t) == DOMAIN v = {t}

\* the base64 alphabet of RFC 4648, which base64.b64encode uses
B64Alphabet ==
   << "A", "B", "C", "D", "E", "F", "G", "H", "I", "J", "K", "L", "M", "N", "O", "P",
      "Q", "R", "S", "T", "U", "V", "W", "X", "Y", "Z", "a", "b", "c", "d", "e", "f",
      "g", "h", "i", "j", "k", "l", "m", "n", "o", "p", "q", "r", "s", "t", "u", "v",
      "w", "x", "y", "z", "0", "1", "2", "3", "4", "5", "6", "7", "8", "9", "+", "/" >>
B64Char(i) == B64Alphabet[i + 1]
B64Value(c) == CHOOSE i \in 0..63 : B64Alphabet[i + 1] = c

\* line 31: base64.b64encode(zb.getvalue()).decode(), three bytes to four
\* characters, the last group padded with "="
RECURSIVE b64encode(_)
b64encode(bs) ==
    IF bs = <<>> THEN <<>>
    ELSE IF Len(bs) = 1
    THEN << B64Char(bs[1] \div 4), B64Char((bs[1] % 4) * 16), "=", "=" >>
    ELSE IF Len(bs) = 2
    THEN << B64Char(bs[1] \div 4), B64Char((bs[1] % 4) * 16 + bs[2] \div 16),
            B64Char((bs[2] % 16) * 4), "=" >>
    ELSE << B64Char(bs[1] \div 4), B64Char((bs[1] % 4) * 16 + bs[2] \div 16),
            B64Char((bs[2] % 16) * 4 + bs[3] \div 64), B64Char(bs[3] % 64) >>
         \o b64encode(SubSeq(bs, 4, Len(bs)))

\* line 42: base64.b64decode(zb), four characters to three bytes
RECURSIVE b64decode(_)
b64decode(cs) ==
    IF Len(cs) < 4 THEN <<>>
    ELSE LET s1 == B64Value(cs[1])
             s2 == B64Value(cs[2])
         IN  IF cs[3] = "=" THEN << s1 * 4 + s2 \div 16 >>
             ELSE IF cs[4] = "="
             THEN << s1 * 4 + s2 \div 16, (s2 % 16) * 16 + B64Value(cs[3]) \div 4 >>
             ELSE << s1 * 4 + s2 \div 16, (s2 % 16) * 16 + B64Value(cs[3]) \div 4,
                     (B64Value(cs[3]) % 4) * 64 + B64Value(cs[4]) >>
                  \o b64decode(SubSeq(cs, 5, Len(cs)))

\* the decimal numeral json.dumps writes for a non-negative int and the int
\* json.loads reads from it
RECURSIVE Numeral(_)
Numeral(n) == IF n < 10 THEN <<ToString(n)>> ELSE Append(Numeral(n \div 10), ToString(n % 10))
DigitValue(c) == CHOOSE d \in 0..9 : ToString(d) = c
RECURSIVE IntOfNumeral(_)
IntOfNumeral(cs) ==
    IF Len(cs) = 1 THEN DigitValue(cs[1])
    ELSE IntOfNumeral(SubSeq(cs, 1, Len(cs) - 1)) * 10 + DigitValue(cs[Len(cs)])

\* json.dumps raises TypeError for a value that is no int, str, bool or None
Serializable(data) == \A k \in DOMAIN data : ~IsInstance(data[k], "BytesIO")

\* lines 25 and 33: json.dumps(data), each value as its JSON token
json_dumps(data) ==
    [k \in DOMAIN data |->
        LET v == data[k] IN
        IF IsInstance(v, "int") THEN [json |-> "number", text |-> Numeral(v.int)]
        ELSE IF IsInstance(v, "str") THEN [json |-> "string", text |-> v.str]
        ELSE IF IsInstance(v, "bool") THEN [json |-> IF v.bool THEN "true" ELSE "false", text |-> <<>>]
        ELSE [json |-> "null", text |-> <<>>]]

\* line 39: json.loads(raw)
json_loads(raw) ==
    [k \in DOMAIN raw |->
        LET tok == raw[k] IN
        IF tok.json = "number" THEN PyInt(IntOfNumeral(tok.text))
        ELSE IF tok.json = "string" THEN PyStr(tok.text)
        ELSE IF tok.json \in {"true", "false"} THEN PyBool(tok.json = "true")
        ELSE PyNone]

\* lines 16-24
NewJob(total) ==
    [total |-> PyInt(total), index |-> PyInt(0), stage |-> PyStr(<<"q", "u", "e", "u", "e", "d">>),
     file |-> PyNone, done |-> PyBool(FALSE), error |-> PyNone, zip_bytes |-> PyNone]

\* lines 15-25: the keyspace after create_job
create_job(rd, job_id, total) == (job_id :> json_dumps(NewJob(total))) @@ rd

\* lines 35-43, for a key that is set: a zip_bytes that is not None is
\* handed out as a BytesIO of the decoded text
get_job(rd, job_id) ==
    LET data == json_loads(rd[job_id]) IN
    IF "zip_bytes" \in DOMAIN data /\ ~IsInstance(data["zip_bytes"], "NoneType")
    THEN ("zip_bytes" :> BytesIO(b64decode(data["zip_bytes"].str))) @@ data
    ELSE data

\* lines 27-33: the keyspace after update_job and the exception it raised.
\* data is what get_job hands out, or {} for a key that is not set
update_job(rd, job_id, kwargs) ==
    LET data == IF job_id \in DOMAIN rd THEN get_job(rd, job_id) ELSE EmptyDict
        fields == IF "zip_bytes" \in DOMAIN kwargs /\ IsInstance(kwargs["zip_bytes"], "BytesIO")
                  THEN ("zip_bytes" :> PyStr(b64encode(kwargs["zip_bytes"].BytesIO))) @@ kwargs
                  ELSE kwargs
        updated == fields @@ data
    IN  IF Serializable(updated)
        THEN [redis |-> (job_id :> json_dumps(updated)) @@ rd, raised |-> Null]
        ELSE [redis |-> rd, raised |-> "TypeError"]

\* the calls of the harness: totals, byte buffers and keyword arguments
Totals == {1, 2}
Bytes == {1, 255}
Buffers == UNION {[1..n -> Bytes] : n \in 0..MaxBytes}
UpdateCalls ==
    {("index" :> PyInt(i)) @@ ("file" :> PyStr(<<"a">>)) : i \in 1..2}
    \cup {("stage" :> PyStr(<<"z", "i", "p">>)), ("error" :> PyStr(<<"E">>)),
          ("done" :> PyBool(TRUE)), ("zip_bytes" :> PyNone)}
    \cup {("zip_bytes" :> BytesIO(b)) : b \in Buffers}
    \cup {("zip_bytes" :> BytesIO(b)) @@ ("done" :> PyBool(TRUE)) : b \in Buffers}

StoreFrame == UNCHANGED appVars /\ UNCHANGED taskVars /\ UNCHANGED wrVars

S_Create ==
    /\ scalls < MaxCalls
    /\ \E total \in Totals :
         /\ redis' = create_job(redis, JobId, total)
         /\ sret' = [op |-> "create_job", raised |-> Null]
         /\ swritten' = NewJob(total)
    /\ scalls' = scalls + 1
    /\ StoreFrame

S_Update ==
    /\ scalls < MaxCalls
    /\ \E kwargs \in UpdateCalls :
         LET r == update_job(redis, JobId, kwargs) IN
         /\ redis' = r.redis
         /\ sret' = [op |-> "update_job", raised |-> r.raised, fields |-> DOMAIN kwargs]
         /\ swritten' = kwargs @@ swritten
    /\ scalls' = scalls + 1
    /\ StoreFrame

\* get_job returns None for a key that is not set
S_Get ==
    /\ scalls < MaxCalls
    /\ sret' = [op |-> "get_job", raised |-> Null,
                result |-> IF JobId \in DOMAIN redis THEN get_job(redis, JobId) ELSE PyNone]
    /\ scalls' = scalls + 1
    /\ UNCHANGED <<redis, swritten>>
    /\ StoreFrame

JobStore == S_Create \/ S_Update \/ S_Get

----------------------------------------------------------------------------
(* Initial states *)

NoArgs == [file_ids |-> <<>>, file_names |-> <<>>, columns |-> NoneCols,
           output_format |-> "xlsx"]

AppInit ==
    /\ jobs = EmptyDict
    /\ wpc = "idle"
    /\ wargs = NoArgs
    /\ widx = 0
    /\ outputs = EmptyDict
    /\ tmpfiles = {}
    /\ processed = {}
    /\ published = {}
    /\ convResp = NoResponse
    /\ ppc = 0
    /\ pacc = EmptyDict
    /\ lastPoll = NoResponse
    /\ dlResp = NoResponse
    /\ dpc = 0
    /\ dacc = EmptyDict

TaskInit ==
    /\ tstate = [state |-> "NONE"]
    /\ tpc = "idle"
    /\ targs = NoArgs
    /\ tidx = 0
    /\ toutputs = EmptyDict
    /\ ttmp = {}
    /\ tprocessed = {}

StoreInit ==
    /\ redis = EmptyDict
    /\ sret = [op |-> "none", raised |-> Null]
    /\ swritten = EmptyDict
    /\ scalls = 0

WriterIdle ==
    /\ win = [writer |-> "none"]
    /\ wout = [done |-> FALSE]

Init == AppInit /\ TaskInit /\ WriterIdle /\ StoreInit

Next == start_conversion \/ Worker \/ download_result

\* the in-process orchestrator of app.py with its request handlers
Spec == Init /\ [][Next]_vars

\* the Celery orchestrator of tasks.py
TaskNext == T_Submit \/ convert_task
SpecTask == Init /\ [][TaskNext]_vars

\* either orchestrator: a behaviour runs the app.py job or the tasks.py task
EitherNext == \/ tpc = "idle" /\ Next
              \/ JobId \notin DOMAIN jobs /\ convResp = NoResponse /\ TaskNext
SpecEither == Init /\ [][EitherNext]_vars

\* one writer call on every bounded row sequence
WriterStart == AppInit /\ TaskInit /\ WriterInit /\ StoreInit
SpecWriter == WriterStart /\ [][RunWriter]_vars

\* the functions of core.py on every bounded document
CoreStart == AppInit /\ TaskInit /\ CoreInit /\ StoreInit
SpecCore == CoreStart /\ [][RunCore]_vars

\* the calls of one writer on a JobStore
SpecStore == Init /\ [][JobStore]_vars

\* the worker thread of app.py under concurrent status polls
PollNext == StartPolled \/ Worker \/ get_status
SpecPoll == Init /\ [][PollNext]_vars

----------------------------------------------------------------------------
(* Properties *)

JobField(js, k, dflt) == IF JobId \in DOMAIN js THEN Get(js[JobId], k, dflt) ELSE dflt
IsBad(kind) == kind \in {"missing", "malformed"}
AllWellFormed(files) == files # <<>> /\ \A i \in 1..Len(files) : ~IsBad(files[i])
\* the first file of the list that cannot be converted, 0 if there is none
FirstBad(files) ==
    IF \E i \in 1..Len(files) : IsBad(files[i])
    THEN CHOOSE i \in 1..Len(files) :
            IsBad(files[i]) /\ \A j \in 1..(i - 1) : ~IsBad(files[j])
    ELSE 0

\* C1: a job's status only moves QUEUED -> PROGRESS -> SUCCESS | FAILURE, and
\* once it is SUCCESS or FAILURE no step of the worker or of a request changes
\* the job's record.
LifecycleSteps == {<<"NONE", "QUEUED">>, <<"QUEUED", "PROGRESS">>,
                   <<"PROGRESS", "SUCCESS">>, <<"PROGRESS", "FAILURE">>}
C1_Lifecycle ==
    [][ /\ StatusOf(jobs) \in {"SUCCESS", "FAILURE"} => jobs' = jobs
        /\ StatusOf(jobs') # StatusOf(jobs)
              => <<StatusOf(jobs), StatusOf(jobs')>> \in LifecycleSteps ]_vars

\* a terminal job after which a download and a rejected request were served
C1_Witness ==
    /\ StatusOf(jobs) = "SUCCESS"
    /\ dlResp.code = 200
    /\ convResp = BadFormat

\* C2 (as claimed): for a job whose files are all well-formed, `current` and
\* the percent never decrease, a progress naming file i is published before
\* file i is converted, and the job ends in SUCCESS; for both orchestrators.
TaskCurrent(st) == IF st.state = "PROGRESS" THEN st.meta.current ELSE 0
TaskPercent(st) == IF st.state = "PROGRESS" THEN st.meta.progress ELSE 0
C2_AppStep ==
    /\ JobField(jobs', "current", 0) >= JobField(jobs, "current", 0)
    /\ JobField(jobs', "progress", 0) >= JobField(jobs, "progress", 0)
    /\ wpc' = "convert" => JobField(jobs', "current", 0) = widx'
    /\ wpc' = "single_convert" => JobField(jobs', "current", 0) = 1
    /\ wpc' = "finish" => JobField(jobs', "progress", 0) = 100
    /\ wpc' = "done" => StatusOf(jobs') = "SUCCESS"
C2_TaskStep ==
    /\ TaskCurrent(tstate') >= TaskCurrent(tstate)
    /\ TaskPercent(tstate') >= TaskPercent(tstate)
    /\ tpc' = "progress" => TaskCurrent(tstate') = tidx'
    /\ tpc' = "return_zip" => TaskPercent(tstate') = 100
    /\ tpc' = "done" => tstate'.state = "SUCCESS"
C2_MonotoneProgress ==
    [][ /\ AllWellFormed(wargs'.file_ids) => C2_AppStep
        /\ AllWellFormed(targs'.file_ids) => C2_TaskStep ]_vars

\* C3 (as claimed): in every progress state percent = floor(current/total*100).
C3_PercentOfCurrent ==
    /\ (StatusOf(jobs) = "PROGRESS" /\ JobField(jobs, "total", 0) > 0)
          => JobField(jobs, "progress", 0)
               = IntPercent(JobField(jobs, "current", 0), JobField(jobs, "total", 0))
    /\ tstate.state = "PROGRESS"
          => tstate.meta.progress = IntPercent(tstate.meta.current, tstate.meta.total)

\* C3 (amended): percent = floor(current/total*100) in the first progress
\* state, after each file and in every state convert_task publishes; in the
\* state _run_conversion publishes before a file, where current already names
\* that file, percent = floor((current - 1)/total*100).
BeforeFile == wpc \in {"convert", "after", "single_convert", "single_finish"}
C3_PercentBeforeAndAfter ==
    /\ (StatusOf(jobs) = "PROGRESS" /\ JobField(jobs, "total", 0) > 0)
          => JobField(jobs, "progress", 0)
               = IF BeforeFile
                 THEN ((JobField(jobs, "current", 0) - 1) * 100) \div JobField(jobs, "total", 0)
                 ELSE (JobField(jobs, "current", 0) * 100) \div JobField(jobs, "total", 0)
    /\ tstate.state = "PROGRESS"
          => tstate.meta.progress = (tstate.meta.current * 100) \div tstate.meta.total

\* the before-file state of file 2 of 3: current = 2, percent = 33
C3_Witness ==
    /\ StatusOf(jobs) = "PROGRESS" /\ wpc = "convert"
    /\ JobField(jobs, "current", 0) = 2 /\ JobField(jobs, "total", 0) = 3
    /\ JobField(jobs, "progress", 0) = 33

\* C4: when file k is the first that cannot be converted, no file after k is
\* handed to a writer, the job ends FAILURE with the error of file k, and no
\* download request is answered with an artifact.
C4_FailureAborts ==
    LET k == FirstBad(wargs.file_ids) IN
    /\ k > 0 => processed \subseteq 1..k
    /\ (k > 0 /\ wpc = "done")
          => /\ StatusOf(jobs) = "FAILURE"
             /\ jobs[JobId]["error"] =
                  [exc |-> IF wargs.file_ids[k] = "missing" THEN "FileNotFoundError"
                           ELSE "XMLSyntaxError",
                   path |-> k]
    /\ StatusOf(jobs) = "FAILURE" => dlResp.code # 200
    /\ dlResp.code = 200 => StatusOf(jobs) = "SUCCESS"

\* file 2 of 3 failed after file 1 went into the archive; a download was refused
C4_Witness ==
    /\ StatusOf(jobs) = "FAILURE" /\ wpc = "done"
    /\ Len(wargs.file_ids) = 3 /\ FirstBad(wargs.file_ids) = 2
    /\ processed = {1, 2}
    /\ "zip" \in DOMAIN outputs /\ Len(outputs["zip"]) = 1
    /\ dlResp = [code |-> 400, detail |-> "Job not completed"]

\* C5 (as claimed): a 3-file job whose second file is malformed ends FAILURE
\* with a message naming that file, and no archive of the job exists then.
C5_NoArchiveAfterFailure ==
    (/\ wpc = "done" /\ Len(wargs.file_ids) = 3
     /\ ~IsBad(wargs.file_ids[1]) /\ wargs.file_ids[2] = "malformed")
       => /\ StatusOf(jobs) = "FAILURE"
          /\ jobs[JobId]["error"].path = 2
          /\ "zip" \notin DOMAIN outputs

\* C6 (as claimed): a job over N files that succeeds leaves one artifact per
\* file: for N > 1 one archive of N entries <base>.<ext>, for N = 1 the bare
\* artifact and no archive; for both orchestrators.
OnePerFile(args, out) ==
    LET n == Len(args.file_ids)
        ext == ExtOf(args.output_format) IN
    IF n > 1
    THEN /\ DOMAIN out = {"zip"}
         /\ Len(out["zip"]) = n
         /\ \A i \in 1..n : out["zip"][i].name = <<BaseOf(args.file_names[i]), ext>>
    ELSE DOMAIN out = {ext}
C6_OneArtifactPerFile ==
    /\ StatusOf(jobs) = "SUCCESS" => OnePerFile(wargs, outputs)
    /\ (tstate.state = "SUCCESS" /\ FormatAccepted(targs.output_format))
          => OnePerFile(targs, toutputs)

\* C7 (as claimed): for a request whose format is none of csv, xlsx, parquet
\* no file is processed and no output file is written, by either orchestrator.
C7_UnknownFormatRejected ==
    /\ ~FormatAccepted(wargs.output_format)
          => (processed = {} /\ outputs = EmptyDict /\ wpc = "idle")
    /\ ~FormatAccepted(targs.output_format)
          => (tprocessed = {} /\ toutputs = EmptyDict)

\* C8 (as claimed): when the worker has ended, on either path, no temp file
\* it created remains, and after a failure no partially written archive.
C8_TempReleased ==
    wpc = "done"
       => /\ tmpfiles = {}
          /\ StatusOf(jobs) = "FAILURE" => "zip" \notin DOMAIN outputs

\* C9 (as claimed): every response of a status poll is the view of one single
\* state the registry has held.
SnapshotResponse(d) ==
    LET status == Get(d, "status", "PROGRESS") IN
    IF status = "SUCCESS" THEN [code |-> 200, status |-> "SUCCESS"]
    ELSE IF status = "FAILURE"
    THEN [code |-> 200, status |-> "FAILURE", error |-> Get(d, "error", "Unknown error")]
    ELSE ProgressResponse([f \in {"progress", "current", "total", "file"} |->
                              Get(d, f, PollDefault(f))])
C9_PollSeesOneState ==
    lastPoll \in {NoResponse, NotFound} \cup {SnapshotResponse(d) : d \in published}

\* C10 (as claimed): the csv and xlsx writers emit the header and then exactly
\* one row per record that row filtering keeps, in order, absent keys as
\* empty cells.
Kept(rows, header) == SelectSeq(rows, LAMBDA r : AnySelected(r, header))
ExpectedTable(writer, rows, columns) ==
    LET header == IF Truthy(columns) THEN columns.list ELSE RKeys(Head(rows))
        kept == Kept(rows, header) IN
    <<header>> \o [i \in 1..Len(kept) |->
                     IF writer = "app_xlsx" THEN RowVals(kept[i], header)
                     ELSE CsvRow(kept[i], header)]
C10_OneRowPerRecord ==
    (/\ wout.done
     /\ win.writer \in {"app_csv", "app_xlsx", "task_csv_single"}
     /\ (Truthy(win.columns) \/ (win.columns.isNone /\ Head(win.rows) # <<>>)))
       => wout.lines = ExpectedTable(win.writer, win.rows, win.columns)

\* C11 (as claimed): for csv, xlsx and parquet alike, a record whose values
\* for all header columns are None or "" is not written, and every record with
\* a non-empty value in some header column is written.
C11_RowFiltering ==
    LET header == IF Truthy(win.columns) THEN win.columns.list ELSE RKeys(Head(win.rows))
        line(r) == IF win.writer = "app_csv" THEN CsvRow(r, header) ELSE RowVals(r, header)
    IN  (/\ wout.done
         /\ win.writer \in {"app_csv", "app_xlsx", "app_parquet"}
         /\ header # <<>>)
           => \A i \in 1..Len(win.rows) :
                 AnySelected(win.rows[i], header)
                    <=> \E j \in 2..Len(wout.lines) : wout.lines[j] = line(win.rows[i])

\* C12: with no projection, the first line every writer emits is the key
\* sequence of the first record, in that record's order, every other line has
\* one cell per key of the first record and is the projection of a record
\* onto those keys: a key only later records have is no column.
C12_HeaderFromFirstRecord ==
    LET header == RKeys(Head(win.rows))
        cells(r) == IF win.writer \in {"app_csv", "task_csv_zip", "task_csv_single"}
                    THEN CsvRow(r, header) ELSE RowVals(r, header)
    IN  (wout.done /\ win.columns.isNone)
           => /\ header # <<>> => wout.lines # <<>>
              /\ wout.lines # <<>>
                    => /\ wout.lines[1] = header
                       /\ \A j \in 2..Len(wout.lines) :
                             \E i \in 1..Len(win.rows) : wout.lines[j] = cells(win.rows[i])

\* the second record has a key b the first one lacks: the header is (a) and
\* the value of b is in no line
C12_Witness ==
    /\ wout.done /\ win.columns.isNone /\ win.writer = "app_xlsx"
    /\ win.rows = << << <<"a", "x">> >>, << <<"a", "">>, <<"b", "x">> >> >>
    /\ wout.lines = << <<"a">>, <<"x">>, <<"x">> >>

\* C14 (as claimed): a projection that is an empty list gives, for every
\* writer of either orchestrator, the output of the absent projection.
C14_EmptyMeansInfer ==
    (wout.done /\ ~Truthy(win.columns))
       => wout.lines = WriterOutput(win.writer, win.rows, NoneCols)

\* C13 (as claimed): an xlsx writer given more than 16384 columns saves
\* ceil(n / 16384) sheets; sheet s carries columns 16384(s-1)+1 .. 16384s in
\* the original order, at most 16384 in every row, and all sheets have the
\* same number of rows; 20000 columns give 2 sheets of 16384 and 3616 columns.
C13_SheetsSplit ==
    LET cols == win.columns.list
        n == Len(cols)
        k == (n + 16383) \div 16384
        last(s) == IF 16384 * s < n THEN 16384 * s ELSE n
        sh == wout.sheets
    IN  (/\ wout.done
         /\ win.writer \in {"app_xlsx", "task_xlsx"}
         /\ Truthy(win.columns) /\ n > 16384)
           => /\ Len(sh) = k
              /\ \A s \in 1..Len(sh) :
                    /\ Len(sh[s]) = Len(sh[1])
                    /\ sh[s] # <<>>
                    /\ sh[s][1] = SubSeq(cols, 16384 * (s - 1) + 1, last(s))
                    /\ \A j \in 1..Len(sh[s]) : Len(sh[s][j]) <= 16384
              /\ n = 20000 => /\ Len(sh) = 2
                              /\ Len(sh[1][1]) = 16384 /\ Len(sh[2][1]) = 3616

\* the keys of a flat record, as a set
KeySet(r) == {r[i][1] : i \in 1..Len(r)}

\* C15 (as claimed): for a document all of whose rows, on either path, have
\* the same non-empty key set, the header of the streaming path (the keys of
\* its first record) is the column list of xml_rows_to_dataframe and the row
\* values of the two paths are the same sequence.
C15_StreamingEqualsWholeDocument ==
    LET header == RKeys(wout.streamed[1])
        columns == wout.table.columns
        cols == {columns[j] : j \in 1..Len(columns)}
    IN  (/\ wout.done
         /\ cols # {}
         /\ \A i \in 1..Len(wout.streamed) : KeySet(wout.streamed[i]) = cols
         /\ \A i \in 1..Len(wout.table.rows) :
               \A j \in 1..Len(columns) : wout.table.rows[i][j] # NaN)
           => /\ header = columns
              /\ [i \in 1..Len(wout.streamed) |-> RowVals(wout.streamed[i], header)]
                    = wout.table.rows

\* the sibling groups of a document: the children of `parent` named `name`
Members(t, parent, name) ==
    SelectSeq(Children(t, parent), LAMBDA c : localname(t[c].tag) = name)
RepeatedGroups(t) ==
    {g \in {<<t[c].parent, localname(t[c].tag)>> : c \in 2..Len(t)} :
        Len(Members(t, g[1], g[2])) >= 2}
RECURSIVE DepthOf(_, _)
DepthOf(t, el) == IF t[el].parent = 0 THEN 0 ELSE 1 + DepthOf(t, t[el].parent)

\* C16: detect_repeating_rows returns the members, in document order, of a
\* group of at least 2 same-named siblings that no other group beats on
\* (count, depth of the parent); without such a group the children of the
\* root, and the root itself when it has none.
C16_BestGroup ==
    LET t == win.doc
        count(g) == Len(Members(t, g[1], g[2]))
        depth(g) == DepthOf(t, g[1])
    IN  wout.done
           => IF RepeatedGroups(t) = {}
              THEN wout.row_elems = IF Children(t, 1) # <<>> THEN Children(t, 1) ELSE <<1>>
              ELSE \E g \in RepeatedGroups(t) :
                      /\ wout.row_elems = Members(t, g[1], g[2])
                      /\ \A h \in RepeatedGroups(t) :
                            \/ count(g) > count(h)
                            \/ count(g) = count(h) /\ depth(g) >= depth(h)

\* <r><a><b/><b/></a><a/></r>: the groups a and b both have 2 members, b under
\* the deeper parent, and b is selected
C16_Witness ==
    /\ wout.done
    /\ win.doc = << Elem(0, "r", "1"), Elem(1, "a", "2"), Elem(2, "b", "3"),
                    Elem(2, "b", "4"), Elem(1, "a", "5") >>
    /\ wout.row_elems = <<3, 4>>

\* element e closes before element f
ClosesBefore(t, e, f) ==
    LET p == [i \in 1..Len(t) |-> t[i].parent] IN
    e # f /\ (f \in Ancestors(p, e) \/ (e < f /\ e \notin Ancestors(p, f)))
\* the count the parent of e holds for the name of e when e closes
CountAtClose(t, e) ==
    Cardinality({s \in 2..e : /\ t[s].parent = t[e].parent
                              /\ localname(t[s].tag) = localname(t[e].tag)})

C18_AttributesAndGroups ==
    LET t == win.doc IN
    wout.done
       => \A el \in 1..Len(t) :
             LET v == wout.normalized[el]
                 attrib == t[el].attrib
                 kids == Children(t, el)
             IN  /\ \A a \in 1..Len(attrib) :
                       (\A b \in (a + 1)..Len(attrib) :
                            localname(attrib[b][1]) # localname(attrib[a][1]))
                          => /\ v.kind = "dict"
                             /\ HasKey(v.v, "@" \o localname(attrib[a][1]))
                             /\ RGet(v.v, "@" \o localname(attrib[a][1])) = Scalar(attrib[a][2])
                 /\ \A c \in 1..Len(kids) :
                       LET name == localname(t[kids[c]].tag)
                           group == Members(t, el, name)
                       IN  /\ v.kind = "dict"
                           /\ HasKey(v.v, name)
                           /\ RGet(v.v, name) =
                                 IF Len(group) = 1 THEN wout.normalized[kids[c]]
                                 ELSE RepeatedGroup([m \in 1..Len(group) |->
                                                        wout.normalized[group[m]]])

\* the scalar leaves of a normalized value with their composed keys, in
\* traversal order
RECURSIVE LeafPaths(_, _)
RECURSIVE LeafPathsOfItems(_, _)
RECURSIVE LeafPathsOfList(_, _, _)
LeafPathsOfItems(items, parent_key) ==
    IF items = <<>> THEN <<>>
    ELSE LeafPaths(Head(items)[2],
                   IF parent_key = "" THEN Head(items)[1]
                   ELSE parent_key \o "." \o Head(items)[1])
         \o LeafPathsOfItems(Tail(items), parent_key)
LeafPathsOfList(items, i, parent_key) ==
    IF items = <<>> THEN <<>>
    ELSE LeafPaths(Head(items), parent_key \o "[" \o ToString(i) \o "]")
         \o LeafPathsOfList(Tail(items), i + 1, parent_key)
LeafPaths(obj, parent_key) ==
    IF obj.kind = "dict" THEN LeafPathsOfItems(obj.v, parent_key)
    ELSE IF obj.kind = "list" THEN LeafPathsOfList(obj.v, 0, parent_key)
    ELSE << <<parent_key, obj.v>> >>

\* C19 (as claimed): the flat record of an element that normalizes to a
\* record has one entry per scalar leaf, keyed parent.key / parent[i] with no
\* leading separator, in traversal order, distinct leaves under distinct keys.
C19_OneKeyPerLeaf ==
    wout.done
       => \A el \in 1..Len(win.doc) :
             wout.normalized[el].kind = "dict"
                => LET leaves == LeafPaths(wout.normalized[el], "") IN
                   /\ wout.flat[el] = leaves
                   /\ \A i, j \in 1..Len(leaves) : i # j => leaves[i][1] # leaves[j][1]

\* the local names of the enumerated documents in lexicographic order
SortedNames == <<"a", "b", "r">>
NameRank(k) == CHOOSE i \in 1..Len(SortedNames) : SortedNames[i] = k
\* the flat records of the detected row elements
RowRecords == [i \in 1..Len(wout.row_elems) |-> wout.flat[wout.row_elems[i]]]
TableOfRecords(columns) ==
    /\ Len(wout.table.rows) = Len(RowRecords)
    /\ {columns[j] : j \in 1..Len(columns)} = UNION {KeySet(RowRecords[i]) : i \in 1..Len(RowRecords)}
    /\ \A i \in 1..Len(RowRecords) :
          /\ Len(wout.table.rows[i]) = Len(columns)
          /\ \A j \in 1..Len(columns) :
                wout.table.rows[i][j] = IF HasKey(RowRecords[i], columns[j])
                                        THEN RGet(RowRecords[i], columns[j]) ELSE NaN

FirstSeen(k) ==
    LET i == CHOOSE i \in 1..Len(RowRecords) :
                HasKey(RowRecords[i], k) /\ \A h \in 1..(i - 1) : ~HasKey(RowRecords[h], k)
    IN  <<i, CHOOSE p \in 1..Len(RowRecords[i]) : RowRecords[i][p][1] = k>>

----------------------------------------------------------------------------
(* The result descriptor and the download handler *)

HasResult(js) ==
    /\ JobField(js, "result_path", Null) # Null
    /\ JobField(js, "result_filename", Null) # Null

\* C21 In every reachable state of the registry a job whose status is SUCCESS
\* has result_path and result_filename set; a download request that has
\* observed SUCCESS finds both when it reads them; and a download request
\* returns an artifact only for a job whose status is SUCCESS.
C21_SuccessHasResult ==
    /\ [](StatusOf(jobs) = "SUCCESS" => HasResult(jobs))
    /\ [](dpc # 0 => HasResult(jobs))
    /\ [][(dpc # 0 /\ dpc' = 0) =>
             /\ HasResult(jobs)
             /\ dlResp'.code = 200 => StatusOf(jobs) = "SUCCESS"]_vars
    /\ [](dlResp.code = 200 => StatusOf(jobs) = "SUCCESS")

\* a download request that observed SUCCESS on a several-file job has read the
\* descriptor and was served the archive
C21_Witness ==
    /\ StatusOf(jobs) = "SUCCESS"
    /\ Len(wargs.file_ids) >= 2
    /\ dpc = 0
    /\ dlResp.code = 200
    /\ dlResp.path = JobField(jobs, "result_path", Null)
    /\ dlResp.filename = "converted_files.zip"

----------------------------------------------------------------------------
(* Row elements without child elements *)

IsLeaf(t, el) == Children(t, el) = <<>>
TrimmedText(t, el) == LET txt == Join(strip(t[el].text)) IN IF txt # "" THEN txt ELSE Null

\* the elements the second pass of the streaming source yields, in the order
\* of their end events
Streamed(t) ==
    SelectSeq([k \in 1..Len(iterparse(t)) |-> iterparse(t)[k]],
              LAMBDA e : e.event = "end" /\ localname(t[e.elem].tag) = target_local(t))

----------------------------------------------------------------------------
(* JobStore: what was written is what is read *)

Created == "total" \in DOMAIN swritten
Stored == get_job(redis, JobId)
\* equal Python values: the same type and the same content
Same(a, b) == DOMAIN a = DOMAIN b /\ a = b

\* C23 After create_job and any sequence of update_job calls by one writer,
\* every update_job call succeeds, get_job returns for each field the value
\* last written to it (a zip_bytes written as a byte buffer reads back as a
\* buffer of the same bytes, also after later updates that do not name it),
\* and an update_job call leaves the fields it does not name unchanged.
C23_LastWrittenIsRead ==
    /\ [](Created /\ sret.op = "update_job" => sret.raised = Null)
    /\ [](Created => /\ DOMAIN Stored = DOMAIN swritten
                      /\ \A k \in DOMAIN swritten : Same(Stored[k], swritten[k]))
    /\ [][(Created /\ sret'.op = "update_job" /\ scalls' # scalls) =>
             \A k \in DOMAIN Stored \ sret'.fields :
                 k \in DOMAIN get_job(redis', JobId)
                 /\ Same(get_job(redis', JobId)[k], Stored[k])]_vars

====
